---- MODULE Spec2Model ----
(***************************************************************************)
(* Model of the fixed-pool allocator (memory_manager.c) and of the linked  *)
(* list built on it (linked_list.c).                                        *)
(*                                                                          *)
(* The pool buffer is modelled word by word (one word = ALIGNMENT bytes):   *)
(* block headers are intrusive, so a header word and a payload word are the *)
(* same memory, and every load and store of the code goes through Load /    *)
(* Store below.  A load of a word outside the buffer, of a misaligned       *)
(* address or of a word never written, and a store outside the buffer, are  *)
(* undefined behaviour: the pool record's ub flag is raised and the call    *)
(* has no defined outcome.                                                  *)
(*                                                                          *)
(* size_t is 64 bits wide in the build; TLC's integers are 32 bits, so the  *)
(* model keeps size_t arithmetic modulo SIZE_MOD = 2^16.  The wrap-around   *)
(* cases depend only on the distance of a request from SIZE_MAX.            *)
(***************************************************************************)
EXTENDS Integers, Sequences, FiniteSets, TLC

VARIABLES
    mem_pool_start,        \* static void *mem_pool_start
    mem_pool_total_size,   \* static size_t mem_pool_total_size
    free_list_head,        \* static Block *free_list_head
    heap,                  \* the malloc'ed buffer, word by word
    ub,                    \* an allocator call ran into undefined behaviour
    owned,                 \* caller side: live pointer -> bytes requested
    lastFreed,             \* caller side: pointer released by the previous call
    lastAlloc,             \* caller side: pointer obtained by the previous call
    last,                  \* the call that produced this state
    head,                  \* the caller's Node *head
    memory_initialized,    \* static int memory_initialized
    ops,                   \* calls made so far
    wrapped,               \* a request so large that its size arithmetic wrapped
    head_mutex,            \* static pthread_mutex_t head_mutex: its holder, or NoThread
    thread                 \* each thread's place in the call it is running

vars == <<mem_pool_start, mem_pool_total_size, free_list_head, heap, ub,
          owned, lastFreed, lastAlloc, last, head, memory_initialized, ops, wrapped,
          head_mutex, thread>>

\* the state of the threads, which a call made by the single caller leaves alone
threadVars == <<head_mutex, thread>>

memVars == <<mem_pool_start, mem_pool_total_size, free_list_head, heap, ub>>

----------------------------------------------------------------------------
(* Program constants *)

ALIGNMENT == 8
SizeofBlock == 24
OffSize == 0
OffIsFree == 8
OffNext == 16
NULL == 0
SIZE_MOD == 2 ^ 16
SIZE_MAX == SIZE_MOD - 1
\* the address malloc hands out for the buffer: aligned, and above every
\* size the model stores in a word, as a real heap address is
PoolBase == 512 * ALIGNMENT
\* a word of the buffer that was never written
Junk == -1

(* Bounds of the model *)
MaxLive == 3
MaxOps == 6

Wrap(x) == x % SIZE_MOD

ALIGN(sz) == Wrap(sz + (ALIGNMENT - 1)) - (Wrap(sz + (ALIGNMENT - 1)) % ALIGNMENT)

HEADER_SIZE == ALIGN(SizeofBlock)

USER_PTR_FROM_BLOCK(b) == b + HEADER_SIZE
BLOCK_FROM_USER_PTR(p) == p - HEADER_SIZE

----------------------------------------------------------------------------
(* The pool as a value: the four statics plus the ub flag. *)

Pool == [start |-> mem_pool_start, total |-> mem_pool_total_size,
         head |-> free_list_head, mem |-> heap, ub |-> ub]

NoPool == [start |-> NULL, total |-> 0, head |-> NULL, mem |-> <<>>, ub |-> FALSE]

PoolEnd(P) == P.start + P.total

InBuf(P, a) ==
    /\ P.start # NULL
    /\ a >= P.start
    /\ a + ALIGNMENT <= PoolEnd(P)
    /\ (a - P.start) % ALIGNMENT = 0

Idx(P, a) == ((a - P.start) \div ALIGNMENT) + 1

Readable(P, a) == InBuf(P, a) /\ P.mem[Idx(P, a)] # Junk

\* the value of the word at a; 0 stands in where the load is undefined
Load(P, a) == IF Readable(P, a) THEN P.mem[Idx(P, a)] ELSE 0

\* P after the code loaded the word at a
Touch(P, a) == IF Readable(P, a) THEN P ELSE [P EXCEPT !.ub = TRUE]

Store(P, a, v) ==
    IF InBuf(P, a) THEN [P EXCEPT !.mem[Idx(P, a)] = v]
    ELSE [P EXCEPT !.ub = TRUE]

SetHead(P, b) == [P EXCEPT !.head = b]

----------------------------------------------------------------------------
(* mem_init *)

mem_init(P, size, mallocOk) ==
    LET sz    == IF size = 0 THEN 1 ELSE size
        total == ALIGN(sz)
        fresh == [start |-> PoolBase, total |-> total, head |-> PoolBase,
                  mem |-> [i \in 1..(total \div ALIGNMENT) |-> Junk], ub |-> FALSE]
    IN  IF ~mallocOk
        THEN [start |-> NULL, total |-> total, head |-> NULL, mem |-> <<>>, ub |-> FALSE]
        ELSE Store(Store(Store(fresh, PoolBase + OffSize, total),
                         PoolBase + OffIsFree, 1),
                   PoolBase + OffNext, NULL)

(* mem_deinit *)

mem_deinit(P) == NoPool

----------------------------------------------------------------------------
(* split_block, mem_alloc *)

SplitThreshold == HEADER_SIZE + ALIGNMENT

Unlink(P, curr, prev, to) ==
    IF prev # NULL THEN Store(P, prev + OffNext, to) ELSE SetHead(P, to)

split_block(P, curr, prev, required_size) ==
    LET leftover == Wrap(Load(P, curr + OffSize) - required_size)
    IN  IF leftover >= SplitThreshold
        THEN LET remainder == curr + required_size
                 P1 == Store(P, remainder + OffSize, leftover)
                 P2 == Store(P1, remainder + OffIsFree, 1)
                 P3 == Store(Touch(P2, curr + OffNext), remainder + OffNext,
                             Load(P2, curr + OffNext))
                 P4 == Store(P3, curr + OffSize, required_size)
                 P5 == Store(P4, curr + OffIsFree, 0)
             IN  Unlink(P5, curr, prev, remainder)
        ELSE LET P1 == Store(P, curr + OffIsFree, 0)
             IN  Unlink(Touch(P1, curr + OffNext), curr, prev, Load(P1, curr + OffNext))

Required(size) == ALIGN(ALIGN(IF size = 0 THEN 1 ELSE size) + HEADER_SIZE)

\* the request is so close to SIZE_MAX that ALIGN or the added header wraps
Wraps(size) == ALIGN(size) < size \/ ALIGN(size) + HEADER_SIZE >= SIZE_MOD

\* the while loop of mem_alloc; fuel runs out only on a cyclic free list,
\* where the loop never returns
RECURSIVE AllocWalk(_, _, _, _, _)
AllocWalk(P, curr, prev, required, fuel) ==
    IF curr = NULL THEN [pool |-> P, ret |-> NULL]
    ELSE IF fuel = 0 \/ ~Readable(P, curr + OffIsFree)
    THEN [pool |-> [P EXCEPT !.ub = TRUE], ret |-> NULL]
    ELSE IF Load(P, curr + OffIsFree) # 0 /\ ~Readable(P, curr + OffSize)
    THEN [pool |-> [P EXCEPT !.ub = TRUE], ret |-> NULL]
    ELSE IF Load(P, curr + OffIsFree) # 0 /\ Load(P, curr + OffSize) >= required
    THEN [pool |-> split_block(P, curr, prev, required),
          ret |-> USER_PTR_FROM_BLOCK(curr)]
    ELSE IF ~Readable(P, curr + OffNext)
    THEN [pool |-> [P EXCEPT !.ub = TRUE], ret |-> NULL]
    ELSE AllocWalk(P, Load(P, curr + OffNext), curr, required, fuel - 1)

mem_alloc(P, size) ==
    AllocWalk(P, P.head, NULL, Required(size), (P.total \div ALIGNMENT) + 1)

----------------------------------------------------------------------------
(* rebuild_free_list_and_coalesce *)

\* the body of the scan for a block marked free
CoalesceFree(P, curr, prev_free, sz) ==
    IF prev_free = NULL
    THEN Store(SetHead(P, curr), curr + OffNext, NULL)
    ELSE IF prev_free + Load(P, prev_free + OffSize) = curr
    THEN Store(Touch(P, prev_free + OffSize), prev_free + OffSize,
               Wrap(Load(P, prev_free + OffSize) + sz))
    ELSE Store(Store(Touch(P, prev_free + OffSize), prev_free + OffNext, curr),
               curr + OffNext, NULL)

CoalesceMerges(P, curr, prev_free) ==
    prev_free # NULL /\ prev_free + Load(P, prev_free + OffSize) = curr

\* the while loop of the scan; every round moves curr forward, so it ends
RECURSIVE CoalesceWalk(_, _, _)
CoalesceWalk(P, curr, prev_free) ==
    IF P.ub \/ curr + HEADER_SIZE > PoolEnd(P) THEN [pool |-> P, corrupt |-> FALSE]
    ELSE IF ~Readable(P, curr + OffSize)
    THEN [pool |-> [P EXCEPT !.ub = TRUE], corrupt |-> FALSE]
    ELSE IF Load(P, curr + OffSize) = 0 \/ curr + Load(P, curr + OffSize) > PoolEnd(P)
    THEN [pool |-> P, corrupt |-> TRUE]
    ELSE IF ~Readable(P, curr + OffIsFree)
    THEN [pool |-> [P EXCEPT !.ub = TRUE], corrupt |-> FALSE]
    ELSE LET isfree == Load(P, curr + OffIsFree) # 0
             P1     == IF isfree
                       THEN CoalesceFree(P, curr, prev_free, Load(P, curr + OffSize))
                       ELSE P
             pf     == IF isfree /\ ~CoalesceMerges(P, curr, prev_free)
                       THEN curr ELSE prev_free
             next   == curr + Load(P1, curr + OffSize)
         IN  IF ~Readable(P1, curr + OffSize)
             THEN [pool |-> [P1 EXCEPT !.ub = TRUE], corrupt |-> FALSE]
             ELSE IF next <= curr \/ next > PoolEnd(P1)
             THEN [pool |-> P1, corrupt |-> FALSE]
             ELSE CoalesceWalk(P1, next, pf)

rebuild_free_list_and_coalesce(P) ==
    IF P.start = NULL THEN [pool |-> P, corrupt |-> FALSE]
    ELSE CoalesceWalk(SetHead(P, NULL), P.start, NULL)

----------------------------------------------------------------------------
(* mem_free *)

OutsidePool(P, ptr) == ptr < P.start \/ ptr >= P.start + P.total

\* if (hdr->is_free): the double-free test
AlreadyFree_never(P, hdr) == FALSE
AlreadyFree(P, hdr) == Load(P, hdr + OffIsFree) # 0

mem_free(P, ptr) ==
    IF ptr = NULL THEN [pool |-> P, diag |-> "none"]
    ELSE IF OutsidePool(P, ptr) THEN [pool |-> P, diag |-> "InvalidPointer"]
    ELSE LET hdr == BLOCK_FROM_USER_PTR(ptr)
         IN  IF ~Readable(P, hdr + OffIsFree)
             THEN [pool |-> [P EXCEPT !.ub = TRUE], diag |-> "none"]
             ELSE IF AlreadyFree(P, hdr)
             THEN [pool |-> P, diag |-> "DoubleFree"]
             ELSE LET r == rebuild_free_list_and_coalesce(Store(P, hdr + OffIsFree, 1))
                  IN  [pool |-> r.pool,
                       diag |-> IF r.corrupt THEN "PoolCorruption" ELSE "none"]

----------------------------------------------------------------------------
(* mem_resize *)

Min(a, b) == IF a < b THEN a ELSE b

\* memcpy(dst, src, n): whole words are copied as they are (a word never
\* written stays one); a trailing part of a word leaves a word of mixed bytes
RECURSIVE memcpy(_, _, _, _)
memcpy(P, dst, src, n) ==
    IF n = 0 \/ P.ub THEN P
    ELSE IF ~InBuf(P, src) \/ ~InBuf(P, dst) THEN [P EXCEPT !.ub = TRUE]
    ELSE IF n < ALIGNMENT THEN Store(P, dst, Junk)
    ELSE memcpy(Store(P, dst, P.mem[Idx(P, src)]),
                dst + ALIGNMENT, src + ALIGNMENT, n - ALIGNMENT)

\* if (!new_block) return NULL: the old block is left as it is
ResizeFail_releases_old(P, block) ==
    [pool |-> mem_free(P, block).pool, ret |-> NULL, diag |-> "none", path |-> "nomem"]
ResizeFail(P, block) ==
    [pool |-> P, ret |-> NULL, diag |-> "none", path |-> "nomem"]

\* the outcome of a resize that moved the block, from what mem_free returned
Moved(f, new_block) ==
    [pool |-> f.pool, ret |-> new_block, diag |-> f.diag, path |-> "moved"]

\* mem_free(block); return new_block, C being the pool after the memcpy
ResizeRelease(C, block, new_block) ==
    IF C.ub THEN Moved([pool |-> C, diag |-> "none"], new_block)
    ELSE Moved(mem_free(C, block), new_block)

\* the lines after new_block = mem_alloc(size), a being what it returned
ResizeMove(a, block, old_user, size) ==
    IF a.ret = NULL THEN ResizeFail(a.pool, block)
    ELSE ResizeRelease(memcpy(a.pool, a.ret, block, Min(old_user, size)), block, a.ret)

\* the lines from size_t old_user on
ResizeSized(P, block, size, old_total) ==
    IF Wrap(ALIGN(size) + HEADER_SIZE) <= old_total
    THEN [pool |-> P, ret |-> block, diag |-> "none", path |-> "fits"]
    ELSE ResizeMove(mem_alloc(P, size), block,
                    IF old_total >= HEADER_SIZE THEN old_total - HEADER_SIZE ELSE 0,
                    size)

\* a.ret with the pool a.pool, on the path of a resize of NULL
Allocated(a) == [pool |-> a.pool, ret |-> a.ret, diag |-> "none", path |-> "alloc"]

\* f.pool with NULL returned, on the path of a resize to 0
Released(f) == [pool |-> f.pool, ret |-> NULL, diag |-> f.diag, path |-> "free"]

ResizeUb(P) == [pool |-> [P EXCEPT !.ub = TRUE], ret |-> NULL, diag |-> "none", path |-> "ub"]

mem_resize(P, block, size) ==
    IF block = NULL THEN Allocated(mem_alloc(P, size))
    ELSE IF size = 0 THEN Released(mem_free(P, block))
    ELSE IF ~Readable(P, BLOCK_FROM_USER_PTR(block) + OffIsFree) THEN ResizeUb(P)
    ELSE IF Load(P, BLOCK_FROM_USER_PTR(block) + OffIsFree) # 0
    THEN [pool |-> P, ret |-> NULL, diag |-> "ResizeFreed", path |-> "freed"]
    ELSE IF ~Readable(P, BLOCK_FROM_USER_PTR(block) + OffSize) THEN ResizeUb(P)
    ELSE ResizeSized(P, block, size, Load(P, BLOCK_FROM_USER_PTR(block) + OffSize))

----------------------------------------------------------------------------
(* The caller of the allocator: what it passes in *)

InitSizes == {100}
AllocSizes == {0, 40, SIZE_MAX - 24, SIZE_MAX}
ResizeSizes == {0, 8, 48, SIZE_MAX}
DataVals == {0, 7}
WriteIdx == {0, 1}

\* pointers outside the buffer: just below it, and its end
OutPtrs == {PoolBase - ALIGNMENT, PoolBase + mem_pool_total_size}

NoPtr == [ptr |-> NULL, n |-> 0, freeBefore |-> 0]

\* the threads that call into the list and the allocator
Threads == {1, 2}
NoThread == 0

\* a thread's place: the step it is at, the data or size it was called with,
\* the node or block it got (old_user while mem_resize has none yet), the
\* node or block it was given or has reached, and the calls it has made
Place(pc, data, node, at, calls) ==
    [pc |-> pc, data |-> data, node |-> node, at |-> at, calls |-> calls]

\* a thread that is in no call
Idle == Place("idle", 0, NULL, NULL, 0)

Call(op, ptr, size, ret, diag, path) ==
    [op |-> op, ptr |-> ptr, size |-> size, ret |-> ret, diag |-> diag, path |-> path]

\* one more call, within the model's bound on the length of a run
Step == ops < MaxOps /\ ops' = ops + 1 /\ UNCHANGED threadVars

\* the statics after a call that returned P
SetPool(P) ==
    IF P.ub
    THEN /\ ub' = TRUE
         /\ UNCHANGED <<mem_pool_start, mem_pool_total_size, free_list_head, heap>>
    ELSE /\ ub' = FALSE
         /\ mem_pool_start' = P.start
         /\ mem_pool_total_size' = P.total
         /\ free_list_head' = P.head
         /\ heap' = P.mem

Drop(f, p) == [q \in (DOMAIN f) \ {p} |-> f[q]]
Put(f, p, n) == [q \in (DOMAIN f) \cup {p} |-> IF q = p THEN n ELSE f[q]]

\* bytes on the free list, as a walk of it sees them (0 past a broken link)
RECURSIVE FreeListFrom(_, _, _)
FreeListFrom(P, b, fuel) ==
    IF b = NULL \/ fuel = 0 \/ ~Readable(P, b + OffNext) THEN <<>>
    ELSE <<b>> \o FreeListFrom(P, Load(P, b + OffNext), fuel - 1)

FreeList(P) == FreeListFrom(P, P.head, (P.total \div ALIGNMENT) + 1)

RECURSIVE SumSizes(_, _)
SumSizes(P, bs) ==
    IF bs = <<>> THEN 0 ELSE Load(P, Head(bs) + OffSize) + SumSizes(P, Tail(bs))

FreeBytes(P) == SumSizes(P, FreeList(P))

Init ==
    /\ mem_pool_start = NULL
    /\ mem_pool_total_size = 0
    /\ free_list_head = NULL
    /\ heap = <<>>
    /\ ub = FALSE
    /\ owned = <<>>
    /\ lastFreed = NoPtr
    /\ lastAlloc = NoPtr
    /\ last = Call("start", NULL, 0, NULL, "none", "")
    /\ head = NULL
    /\ memory_initialized = 0
    /\ ops = 0
    /\ wrapped = FALSE
    /\ head_mutex = NoThread
    /\ thread = [t \in Threads |-> Idle]

MemInit ==
    \E size \in InitSizes, mallocOk \in BOOLEAN :
        /\ ~ub /\ Step
        /\ SetPool(mem_init(Pool, size, mallocOk))
        /\ owned' = <<>>
        /\ lastFreed' = NoPtr
        /\ lastAlloc' = NoPtr
        /\ last' = Call("mem_init", NULL, size, NULL,
                        IF mallocOk THEN "none" ELSE "InitFailed", "")
        /\ wrapped' = FALSE
        /\ UNCHANGED <<head, memory_initialized>>

MemDeinit ==
    /\ ~ub /\ Step
    /\ SetPool(mem_deinit(Pool))
    /\ owned' = <<>>
    /\ lastFreed' = NoPtr
    /\ lastAlloc' = NoPtr
    /\ last' = Call("mem_deinit", NULL, 0, NULL, "none", "")
    /\ wrapped' = FALSE
    /\ UNCHANGED <<head, memory_initialized>>

MemAlloc ==
    \E size \in AllocSizes :
        LET r == mem_alloc(Pool, size)
        IN  /\ ~ub /\ Step
            /\ Cardinality(DOMAIN owned) < MaxLive
            /\ SetPool(r.pool)
            /\ owned' = IF r.ret # NULL /\ ~r.pool.ub THEN Put(owned, r.ret, size)
                        ELSE owned
            /\ lastFreed' = NoPtr
            /\ lastAlloc' = IF r.ret # NULL /\ ~r.pool.ub
                            THEN [ptr |-> r.ret, n |-> size,
                                  freeBefore |-> FreeBytes(Pool)]
                            ELSE NoPtr
            /\ last' = Call("mem_alloc", NULL, size, r.ret, "none", "")
            /\ wrapped' = (wrapped \/ Wraps(size))
            /\ UNCHANGED <<head, memory_initialized>>

MemFree ==
    \E ptr \in (DOMAIN owned) \cup {lastFreed.ptr, NULL} \cup OutPtrs :
        LET r == mem_free(Pool, ptr)
            released == ptr \in DOMAIN owned /\ ~r.pool.ub /\ r.diag = "none"
        IN  /\ ~ub /\ Step
            /\ SetPool(r.pool)
            /\ owned' = IF ptr \in DOMAIN owned THEN Drop(owned, ptr) ELSE owned
            /\ lastFreed' = IF released
                            THEN [ptr |-> ptr, n |-> owned[ptr], freeBefore |-> 0]
                            ELSE NoPtr
            /\ lastAlloc' = NoPtr
            /\ last' = Call("mem_free", ptr, 0, NULL, r.diag,
                            IF ptr = NULL THEN "null"
                            ELSE IF ptr = lastFreed.ptr THEN "again"
                            ELSE IF ptr \in DOMAIN owned THEN "live" ELSE "outside")
            /\ UNCHANGED <<head, memory_initialized, wrapped>>

\* the caller's pointers after mem_resize(ptr, size) returned r
OwnedAfterResize(ptr, size, r) ==
    IF r.pool.ub THEN owned
    ELSE IF r.ret # NULL
    THEN Put(IF ptr \in DOMAIN owned /\ r.path = "moved" THEN Drop(owned, ptr) ELSE owned,
             r.ret, size)
    ELSE IF ptr \in DOMAIN owned /\ r.path = "free" THEN Drop(owned, ptr)
    ELSE owned

Resized(ptr, size, r) ==
    /\ SetPool(r.pool)
    /\ owned' = OwnedAfterResize(ptr, size, r)
    /\ last' = Call("mem_resize", ptr, size, r.ret, r.diag, r.path)

MemResize ==
    \E ptr \in (DOMAIN owned) \cup {NULL} \cup OutPtrs, size \in ResizeSizes :
        /\ ~ub /\ Step
        /\ ptr = NULL => Cardinality(DOMAIN owned) < MaxLive
        /\ Resized(ptr, size, mem_resize(Pool, ptr, size))
        /\ lastFreed' = NoPtr
        /\ lastAlloc' = NoPtr
        /\ wrapped' = (wrapped \/ Wraps(size))
        /\ UNCHANGED <<head, memory_initialized>>

\* the caller stores a value into a payload it was handed, within the bytes
\* it asked for
Write ==
    \E p \in DOMAIN owned, i \in WriteIdx, v \in DataVals :
        /\ ~ub /\ Step
        /\ i * ALIGNMENT < owned[p]
        /\ SetPool(Store(Pool, p + i * ALIGNMENT, v))
        /\ lastFreed' = NoPtr
        /\ last' = Call("write", p, i, v, "none", "")
        /\ UNCHANGED <<owned, lastAlloc, head, memory_initialized, wrapped>>

Next ==
    \/ MemInit
    \/ MemDeinit
    \/ MemAlloc
    \/ MemFree
    \/ MemResize
    \/ Write

Spec == Init /\ [][Next]_vars

----------------------------------------------------------------------------
(* What the claims speak of *)

Initialized == mem_pool_start # NULL

\* the bytes between a payload pointer and the end of its block
Usable(P, p) == Load(P, BLOCK_FROM_USER_PTR(p) + OffSize) - HEADER_SIZE

\* the blocks tile the buffer from b to its end
RECURSIVE TilesFrom(_, _)
TilesFrom(P, b) ==
    IF b = PoolEnd(P) THEN TRUE
    ELSE IF b > PoolEnd(P) \/ ~Readable(P, b + OffSize) THEN FALSE
    ELSE /\ Load(P, b + OffSize) # 0
         /\ Load(P, b + OffSize) % ALIGNMENT = 0
         /\ TilesFrom(P, b + Load(P, b + OffSize))

\* the blocks in address order, as far as the sizes lead
RECURSIVE PhysFrom(_, _)
PhysFrom(P, b) ==
    IF b >= PoolEnd(P) \/ ~Readable(P, b + OffSize) \/ Load(P, b + OffSize) = 0
    THEN <<>>
    ELSE <<b>> \o PhysFrom(P, b + Load(P, b + OffSize))

PhysBlocks(P) == IF P.start = NULL THEN <<>> ELSE PhysFrom(P, P.start)

Range(q) == {q[i] : i \in DOMAIN q}

MarkedFree(P) == {b \in Range(PhysBlocks(P)) : Load(P, b + OffIsFree) # 0}
MarkedUsed(P) == {b \in Range(PhysBlocks(P)) : Load(P, b + OffIsFree) = 0}

RECURSIVE SumSet(_, _)
SumSet(P, S) ==
    IF S = {} THEN 0
    ELSE LET b == CHOOSE x \in S : TRUE
         IN  Load(P, b + OffSize) + SumSet(P, S \ {b})

NoRepeat(q) == \A i, j \in DOMAIN q : i # j => q[i] # q[j]

----------------------------------------------------------------------------
\* C1: the payloads of the live blocks are pairwise disjoint and inside the
\* pool, and a pointer returned by mem_alloc(n) is 8-byte aligned and has at
\* least n usable bytes before the end of its block.
C1_LiveDisjointAndSized ==
    ~ub =>
        /\ \A p \in DOMAIN owned :
              /\ p >= mem_pool_start + HEADER_SIZE
              /\ Usable(Pool, p) >= 0
              /\ p + Usable(Pool, p) <= PoolEnd(Pool)
        /\ \A p, q \in DOMAIN owned : p < q => p + Usable(Pool, p) <= q
        /\ (last.op = "mem_alloc" /\ last.ret # NULL) =>
              /\ (last.ret - mem_pool_start) % ALIGNMENT = 0
              /\ Usable(Pool, last.ret) >= last.size

\* C1 on the runs where no request's size arithmetic wrapped
C1_WhenNoWrap == wrapped \/ C1_LiveDisjointAndSized

\* C2: in an initialized pool the blocks tile the buffer exactly, each size a
\* non-zero multiple of 8, the last block ending at the pool's end.
C2_BlocksTile == (Initialized /\ ~ub) => TilesFrom(Pool, mem_pool_start)

\* C2 on the runs where no request's size arithmetic wrapped
C2_WhenNoWrap == wrapped \/ C2_BlocksTile

\* C3: between calls the free list links exactly the blocks marked free, and
\* free bytes plus used bytes make up the pool's capacity.
C3_FreeListExact ==
    (Initialized /\ ~ub) =>
        /\ NoRepeat(FreeList(Pool))
        /\ Range(FreeList(Pool)) = MarkedFree(Pool)
        /\ FreeBytes(Pool) + SumSet(Pool, MarkedUsed(Pool)) = mem_pool_total_size

\* C3 on the runs where no request's size arithmetic wrapped
C3_WhenNoWrap == wrapped \/ C3_FreeListExact

Statics == <<mem_pool_start, mem_pool_total_size, free_list_head, heap>>

C5_OutsideIgnored ==
    [][(/\ last'.op \in {"mem_free", "mem_resize"}
        /\ last'.ptr # NULL
        /\ OutsidePool(Pool, last'.ptr)) =>
          (~ub' /\ Statics' = Statics)]_vars

\* C5 for mem_free alone
C5_FreeOutsideIgnored ==
    [][(last'.op = "mem_free" /\ last'.ptr # NULL /\ OutsidePool(Pool, last'.ptr)) =>
          (~ub' /\ Statics' = Statics /\ last'.diag = "InvalidPointer")]_vars

\* C6: when the pointer a mem_alloc returned is freed by the next allocator
\* call, the free bytes are again what they were before that mem_alloc.
C6_RoundTrip ==
    [][(last'.op = "mem_free" /\ lastAlloc.ptr # NULL /\ last'.ptr = lastAlloc.ptr) =>
          (~ub' /\ FreeBytes(Pool)' = lastAlloc.freeBefore)]_vars

\* C6 on the runs where no request's size arithmetic wrapped
C6_WhenNoWrap ==
    [][(/\ last'.op = "mem_free" /\ lastAlloc.ptr # NULL /\ last'.ptr = lastAlloc.ptr
        /\ ~wrapped) =>
          (~ub' /\ FreeBytes(Pool)' = lastAlloc.freeBefore)]_vars

\* a free block below address b that is large enough for a request of m bytes
FitsBelow(P, b, m) ==
    \E f \in Range(FreeList(P)) : f < b /\ Load(P, f + OffSize) >= Required(m)

ReuseOk(p, n, m, ret, P) ==
    /\ ret # NULL
    /\ ~FitsBelow(P, BLOCK_FROM_USER_PTR(p), m) =>
          (ret >= p /\ ret < p + (IF n = 0 THEN 1 ELSE n))

\* C7: after mem_free(p), p obtained for n bytes, the next call mem_alloc(m)
\* with m <= n succeeds, and returns a pointer inside [p, p+n) unless a free
\* block at a lower address fits m.
C7_ReuseAfterFree ==
    [][(last'.op = "mem_alloc" /\ lastFreed.ptr # NULL /\ last'.size <= lastFreed.n) =>
          (~ub' /\ ReuseOk(lastFreed.ptr, lastFreed.n, last'.size, last'.ret, Pool))]_vars

\* C7 on the runs where no request's size arithmetic wrapped
C7_WhenNoWrap ==
    [][(/\ last'.op = "mem_alloc" /\ lastFreed.ptr # NULL /\ last'.size <= lastFreed.n
        /\ ~wrapped') =>
          (~ub' /\ ReuseOk(lastFreed.ptr, lastFreed.n, last'.size, last'.ret, Pool))]_vars

\* the first k bytes at dst in Q are the first k bytes at src in P
SameBytes(P, src, Q, dst, k) ==
    \A i \in 0..((k \div ALIGNMENT) - 1) :
        Q.mem[Idx(Q, dst) + i] = P.mem[Idx(P, src) + i]

\* mem_resize(p, n) of a live p, n > 0, in this step
ResizesLive == last'.op = "mem_resize" /\ last'.ptr \in DOMAIN owned /\ last'.size > 0

ResizeOk(p, n, ret, P, Q) ==
    IF n > Usable(P, p)
    THEN \/ ret = NULL
         \/ /\ ret # p
            /\ SameBytes(P, p, Q, ret, Min(Usable(P, p), n))
            /\ Load(Q, BLOCK_FROM_USER_PTR(p) + OffIsFree) # 0
    ELSE ret = p /\ Q = P

\* C8: a mem_resize that grows a live block returns a new pointer whose first
\* min(old payload size, n) bytes are the old payload's, and the old block is
\* free afterwards; one that already fits returns p and changes nothing.
C8_ResizeKeepsBytes ==
    [][ResizesLive => (~ub' /\ ResizeOk(last'.ptr, last'.size, last'.ret, Pool, Pool'))]_vars

\* C8 on the runs where no request's size arithmetic wrapped
C8_WhenNoWrap ==
    [][(ResizesLive /\ ~wrapped') =>
          (~ub' /\ ResizeOk(last'.ptr, last'.size, last'.ret, Pool, Pool'))]_vars

\* C9: when mem_resize(p, n) needs a larger block and no free block can
\* hold it, it returns NULL and the old block stays allocated, with its size,
\* its bytes and the rest of the pool as they were.
C9_FailedResizeKeepsOld ==
    [][(/\ ResizesLive
        /\ Wrap(ALIGN(last'.size) + HEADER_SIZE) > Usable(Pool, last'.ptr) + HEADER_SIZE
        /\ mem_alloc(Pool, last'.size).ret = NULL) =>
          (/\ last'.ret = NULL
           /\ ~ub'
           /\ Statics' = Statics
           /\ last'.ptr \in DOMAIN owned')]_vars

C9_Witness ==
    /\ last.op = "mem_resize" /\ last.path = "nomem" /\ last.ret = NULL
    /\ last.ptr \in DOMAIN owned /\ ~ub

----------------------------------------------------------------------------
(* linked_list.c: a Node is a payload of the pool *)

SizeofNode == 56
OffData == 0
OffLink == 8
OffLock == 16
\* the states of a node's pthread mutex, as the word kept at OffLock
MutexUnlocked == 100
MutexDestroyed == 101
UINT16_MOD == 2 ^ 16

\* the pool ensure_memory_initialized asks for is 128 MB; the model's lazy
\* pool holds a few nodes
ListPoolBytes == 320
ListVals == {5, 7}

ensure_memory_initialized_again(S, mallocOk) ==
    [S EXCEPT !.pool = mem_init(S.pool, ListPoolBytes, mallocOk), !.inited = 1]
ensure_memory_initialized(S, mallocOk) ==
    IF S.inited = 0
    THEN [S EXCEPT !.pool = mem_init(S.pool, ListPoolBytes, mallocOk), !.inited = 1]
    ELSE S

\* the list as a value: the pool, the flag of the lazy initialisation and
\* the caller's head
ListState == [pool |-> Pool, inited |-> memory_initialized, head |-> head]

Ub(S) == [S EXCEPT !.pool.ub = TRUE]

\* a fresh node: data, next = NULL, pthread_mutex_init
NewNode(P, n, data) ==
    Store(Store(Store(P, n + OffData, data % UINT16_MOD), n + OffLink, NULL),
          n + OffLock, MutexUnlocked)

\* while (curr->next) curr = curr->next
RECURSIVE LastNode(_, _, _)
LastNode(P, curr, fuel) ==
    IF fuel = 0 \/ ~Readable(P, curr + OffLink) THEN NULL
    ELSE IF Load(P, curr + OffLink) = NULL THEN curr
    ELSE LastNode(P, Load(P, curr + OffLink), fuel - 1)

Fuel(P) == (P.total \div ALIGNMENT) + 1

\* curr->next = new_node at the tail
LinkAtTail_dropped(P, tail, n) == P
LinkAtTail(P, tail, n) == Store(P, tail + OffLink, n)

list_insert(S0, data, mallocOk) ==
    LET S == ensure_memory_initialized(S0, mallocOk)
        a == mem_alloc(S.pool, SizeofNode)
    IN  IF a.ret = NULL
        THEN [st |-> [S EXCEPT !.pool = a.pool], ret |-> NULL, path |-> "nomem"]
        ELSE LET P1 == NewNode(a.pool, a.ret, data)
             IN  IF S.head = NULL
                 THEN [st |-> [S EXCEPT !.pool = P1, !.head = a.ret],
                       ret |-> a.ret, path |-> "ok"]
                 ELSE LET tail == LastNode(P1, S.head, Fuel(P1))
                      IN  IF tail = NULL
                          THEN [st |-> Ub(S), ret |-> NULL, path |-> "ub"]
                          ELSE [st |-> [S EXCEPT !.pool = LinkAtTail(P1, tail, a.ret)],
                                ret |-> a.ret, path |-> "ok"]

\* the first node from curr on whose data is the value looked for, with
\* its predecessor; found = FALSE with curr = NULL at the end of the chain
RECURSIVE FindData(_, _, _, _, _)
FindData(P, curr, prev, data, fuel) ==
    IF curr = NULL THEN [curr |-> NULL, prev |-> prev, ub |-> FALSE]
    ELSE IF fuel = 0 \/ ~Readable(P, curr + OffData)
    THEN [curr |-> NULL, prev |-> prev, ub |-> TRUE]
    ELSE IF Load(P, curr + OffData) = data % UINT16_MOD
    THEN [curr |-> curr, prev |-> prev, ub |-> FALSE]
    ELSE IF ~Readable(P, curr + OffLink)
    THEN [curr |-> NULL, prev |-> prev, ub |-> TRUE]
    ELSE FindData(P, Load(P, curr + OffLink), curr, data, fuel - 1)

\* pthread_mutex_destroy(&curr->lock); mem_free(curr)
DestroyNode_kept(P, n) == Store(P, n + OffLock, MutexDestroyed)
\* destroying a mutex that is locked, or is none, is undefined
DestroyNode(P, n) ==
    IF Load(P, n + OffLock) # MutexUnlocked THEN [P EXCEPT !.ub = TRUE]
    ELSE mem_free(Store(P, n + OffLock, MutexDestroyed), n).pool

\* list_delete after ensure_memory_initialized(), S being the list it left
DeleteEnsured(S, data) ==
    LET f == FindData(S.pool, S.head, NULL, data, Fuel(S.pool))
    IN  IF S.head = NULL THEN S
        ELSE IF f.ub THEN Ub(S)
        ELSE IF f.curr = NULL THEN S
        ELSE IF ~Readable(S.pool, f.curr + OffLink) THEN Ub(S)
        ELSE LET nxt == Load(S.pool, f.curr + OffLink)
                 P1  == IF f.prev = NULL THEN S.pool
                        ELSE Store(S.pool, f.prev + OffLink, nxt)
             IN  [S EXCEPT !.head = IF f.prev = NULL THEN nxt ELSE S.head,
                           !.pool = DestroyNode(P1, f.curr)]

list_delete(S0, data, mallocOk) ==
    DeleteEnsured(ensure_memory_initialized(S0, mallocOk), data)

list_search(S, data) ==
    LET f == FindData(S.pool, S.head, NULL, data, Fuel(S.pool))
    IN  [st |-> IF f.ub THEN Ub(S) ELSE S, ret |-> f.curr]

\* the while loop of list_cleanup
RECURSIVE FreeChain(_, _, _)
FreeChain(P, curr, fuel) ==
    IF curr = NULL \/ P.ub THEN P
    ELSE IF fuel = 0 \/ ~Readable(P, curr + OffLink) THEN [P EXCEPT !.ub = TRUE]
    ELSE FreeChain(DestroyNode(P, curr), Load(P, curr + OffLink), fuel - 1)

list_cleanup(S) ==
    LET P1 == FreeChain(S.pool, S.head, Fuel(S.pool))
    IN  IF P1.ub THEN Ub(S)
        ELSE IF S.inited # 0
        THEN [pool |-> mem_deinit(P1), inited |-> 0, head |-> NULL]
        ELSE [S EXCEPT !.pool = P1, !.head = NULL]

list_init(S0, mallocOk) ==
    LET S == ensure_memory_initialized(S0, mallocOk)
    IN  IF S.head # NULL THEN list_cleanup(S) ELSE [S EXCEPT !.head = NULL]

----------------------------------------------------------------------------
(* list_insert_before *)

\* while (curr && curr != next_node): the node next_node with its
\* predecessor, or curr = NULL at the end of the chain
RECURSIVE FindNode(_, _, _, _, _)
FindNode(P, curr, prev, next_node, fuel) ==
    IF curr = NULL \/ curr = next_node THEN [curr |-> curr, prev |-> prev, ub |-> FALSE]
    ELSE IF fuel = 0 \/ ~Readable(P, curr + OffLink)
    THEN [curr |-> NULL, prev |-> prev, ub |-> TRUE]
    ELSE FindNode(P, Load(P, curr + OffLink), curr, next_node, fuel - 1)

\* what a call of list_insert_before leaves: the list, and whether the path
\* taken released the head_mutex it had locked
Returned(S, unlocked) == [st |-> S, unlocked |-> unlocked]

\* prev->next = new_node, new_node->next = curr
SpliceBefore(P, prev, n, curr) == Store(Store(P, prev + OffLink, n), n + OffLink, curr)

\* pthread_mutex_destroy(&new_node->lock); mem_free(new_node)
ReleaseUnused_leaked(P, n) == P
ReleaseUnused(P, n) == DestroyNode(P, n)

\* the lines after the walk, f being where it stopped
InsertBeforeFound(S, P, next_node, n, f) ==
    IF f.ub THEN Returned(Ub(S), FALSE)
    ELSE IF f.curr = next_node /\ f.prev # NULL
    THEN Returned([S EXCEPT !.pool = SpliceBefore(P, f.prev, n, f.curr)], TRUE)
    ELSE Returned([S EXCEPT !.pool = ReleaseUnused(P, n)], TRUE)

\* the lines after the node's fields are set, P being the pool with the node
InsertBeforeLink(S, P, next_node, n) ==
    IF S.head = next_node
    THEN Returned([S EXCEPT !.pool = Store(P, n + OffLink, S.head), !.head = n], TRUE)
    ELSE InsertBeforeFound(S, P, next_node, n,
                           FindNode(P, S.head, NULL, next_node, Fuel(P)))

\* the lines after new_node = mem_alloc(sizeof(Node)), a being what it returned
InsertBeforeAlloc(S, next_node, data, a) ==
    IF a.ret = NULL THEN Returned([S EXCEPT !.pool = a.pool], TRUE)
    ELSE InsertBeforeLink(S, NewNode(a.pool, a.ret, data), next_node, a.ret)

\* the lines after ensure_memory_initialized(), S being the list it left
InsertBeforeEnsured(S, next_node, data) ==
    IF next_node = NULL THEN Returned(S, TRUE)
    ELSE InsertBeforeAlloc(S, next_node, data, mem_alloc(S.pool, SizeofNode))

list_insert_before(S0, next_node, data, mallocOk) ==
    InsertBeforeEnsured(ensure_memory_initialized(S0, mallocOk), next_node, data)

----------------------------------------------------------------------------
(* list_count_nodes, list_display_range *)

\* the ceiling of list_count_nodes, 1000000 in the code
SafetyCeiling == 2

\* the while loop of list_count_nodes: count++, curr = curr->next, and the
\* test of ++safety
RECURSIVE CountWalk(_, _, _, _)
CountWalk(P, curr, count, safety) ==
    IF curr = NULL THEN [ret |-> count, diag |-> "none", ub |-> FALSE]
    ELSE IF ~Readable(P, curr + OffLink)
    THEN [ret |-> count + 1, diag |-> "none", ub |-> TRUE]
    ELSE IF safety + 1 > SafetyCeiling
    THEN [ret |-> count + 1, diag |-> "CycleOrUnboundedList", ub |-> FALSE]
    ELSE CountWalk(P, Load(P, curr + OffLink), count + 1, safety + 1)

list_count_nodes_from_one(S) == CountWalk(S.pool, S.head, 1, 0)
list_count_nodes(S) == CountWalk(S.pool, S.head, 0, 0)

\* the while loop of list_display_range: the values printed from curr on
RECURSIVE DisplayWalk(_, _, _, _, _, _)
DisplayWalk(P, curr, start_node, end_node, started, fuel) ==
    IF curr = NULL \/ fuel = 0 \/ ~Readable(P, curr + OffData)
          \/ ~Readable(P, curr + OffLink)
    THEN <<>>
    ELSE (IF started \/ curr = start_node THEN <<Load(P, curr + OffData)>> ELSE <<>>)
         \o (IF end_node # NULL /\ curr = end_node THEN <<>>
             ELSE DisplayWalk(P, Load(P, curr + OffLink), start_node, end_node,
                              started \/ curr = start_node, fuel - 1))

list_display_range(S, start_node, end_node) ==
    DisplayWalk(S.pool, S.head, start_node, end_node, start_node = NULL, Fuel(S.pool))

list_display(S) == list_display_range(S, NULL, NULL)

----------------------------------------------------------------------------
(* The caller of the list: one thread, one list *)

SetList(S) ==
    /\ SetPool(S.pool)
    /\ memory_initialized' = IF S.pool.ub THEN memory_initialized ELSE S.inited
    /\ head' = IF S.pool.ub THEN head ELSE S.head
    /\ UNCHANGED <<owned, lastFreed, lastAlloc, wrapped>>

ListInit ==
    \E mallocOk \in BOOLEAN :
        /\ ~ub /\ Step
        /\ memory_initialized # 0 => mallocOk
        /\ SetList(list_init(ListState, mallocOk))
        /\ last' = Call("list_init", NULL, 0, NULL, "none", "")

ListInsert ==
    \E data \in ListVals, mallocOk \in BOOLEAN :
        LET r == list_insert(ListState, data, mallocOk)
        IN  /\ ~ub /\ Step
            /\ memory_initialized # 0 => mallocOk
            /\ SetList(r.st)
            /\ last' = Call("list_insert", NULL, data, r.ret, "none", r.path)

ListDelete ==
    \E data \in ListVals, mallocOk \in BOOLEAN :
        /\ ~ub /\ Step
        /\ memory_initialized # 0 => mallocOk
        /\ SetList(list_delete(ListState, data, mallocOk))
        /\ last' = Call("list_delete", NULL, data, NULL, "none", "")

ListSearch ==
    \E data \in ListVals :
        LET r == list_search(ListState, data)
        IN  /\ ~ub /\ Step
            /\ SetList(r.st)
            /\ last' = Call("list_search", NULL, data, r.ret, "none", "")

ListCleanup ==
    /\ ~ub /\ Step
    /\ SetList(list_cleanup(ListState))
    /\ last' = Call("list_cleanup", NULL, 0, NULL, "none", "")

\* where a node of the model's pool can lie
NodeBlock == Required(SizeofNode)
NodeSlots == {PoolBase + HEADER_SIZE + k * NodeBlock : k \in 0..2}

InsertedBefore(next_node, data, r) ==
    /\ SetList(r.st)
    /\ last' = Call("list_insert_before", next_node, data, NULL, "none",
                    IF r.unlocked THEN "unlocked" ELSE "locked")

ListInsertBefore ==
    \E next_node \in NodeSlots \cup {NULL}, data \in ListVals, mallocOk \in BOOLEAN :
        /\ ~ub /\ Step
        /\ memory_initialized # 0 => mallocOk
        /\ InsertedBefore(next_node, data,
                          list_insert_before(ListState, next_node, data, mallocOk))

Counted_silent(r) ==
    /\ SetList(IF r.ub THEN Ub(ListState) ELSE ListState)
    /\ last' = Call("list_count_nodes", NULL, 0, r.ret, "none", "unlocked")
Counted(r) ==
    /\ SetList(IF r.ub THEN Ub(ListState) ELSE ListState)
    /\ last' = Call("list_count_nodes", NULL, 0, r.ret, r.diag, "unlocked")

ListCount ==
    /\ ~ub /\ Step
    /\ Counted(list_count_nodes(ListState))

ListDisplay ==
    /\ ~ub /\ Step
    /\ SetList(ListState)
    /\ last' = Call("list_display", NULL, 0, list_display(ListState), "none", "")

NextList ==
    \/ ListInit
    \/ ListInsert
    \/ ListDelete
    \/ ListSearch
    \/ ListCleanup
    \/ ListInsertBefore
    \/ ListCount
    \/ ListDisplay

SpecList == Init /\ [][NextList]_vars

----------------------------------------------------------------------------
\* the nodes reachable from the head, in order
RECURSIVE ChainFrom(_, _, _)
ChainFrom(P, n, fuel) ==
    IF n = NULL \/ fuel = 0 \/ ~Readable(P, n + OffLink) THEN <<>>
    ELSE <<n>> \o (CHOOSE rest \in {ChainFrom(P, m, fuel - 1) : m \in {Load(P, n + OffLink)}} :
                        TRUE)

Chain == ChainFrom(Pool, head, Fuel(Pool))

Holding(v) == {i \in DOMAIN Chain : Load(Pool, Chain[i] + OffData) = v}

SearchFindsIn(S, v) ==
    LET r == list_search(S, v)
    IN  ~r.st.pool.ub /\ r.ret # NULL /\ Load(S.pool, r.ret + OffData) = v

SearchFindsNoneIn(S, v) ==
    LET r == list_search(S, v)
    IN  ~r.st.pool.ub /\ r.ret = NULL

SearchFinds(v) == SearchFindsIn(ListState, v)
SearchFindsNone(v) == SearchFindsNoneIn(ListState, v)

\* C10 as stated: once list_insert(head, v) has returned with its node
\* allocated, list_search(head, v) returns a node holding v; once
\* list_delete(head, v) has returned, list_search(head, v) returns none.
C10_InsertDeleteSearch ==
    /\ (last.op = "list_insert" /\ last.path = "ok") => SearchFinds(last.size)
    /\ last.op = "list_delete" => SearchFindsNone(last.size)

\* C10 as amended: the search after list_delete(head, v) returns none when
\* at most one node held v before the call; list_delete unlinks one node.
C10_Amended ==
    [][/\ (last'.op = "list_insert" /\ last'.path = "ok") =>
              SearchFindsIn(ListState', last'.size)
       /\ (last'.op = "list_delete" /\ Cardinality(Holding(last'.size)) <= 1) =>
              SearchFindsNoneIn(ListState', last'.size)
       /\ (last'.op = "list_delete" /\ Cardinality(Holding(last'.size)) > 1) =>
              SearchFindsIn(ListState', last'.size)]_vars

C10_Witness ==
    /\ last.op = "list_delete" /\ SearchFindsNone(last.size)
    /\ Len(Chain) = 1 /\ ~ub

----------------------------------------------------------------------------
\* the values along the chain, head first
Vals == [i \in DOMAIN Chain |-> Load(Pool, Chain[i] + OffData)]

\* list_insert_before is called in this step with a target that is not NULL
\* and is no node of the list
TargetAbsent ==
    /\ last'.op = "list_insert_before"
    /\ last'.ptr # NULL
    /\ last'.ptr \notin Range(Chain)

InsertBeforeNoOp ==
    /\ ~ub'
    /\ Chain' = Chain
    /\ Vals' = Vals
    /\ last'.path = "unlocked"
    /\ FreeBytes(Pool)' = FreeBytes(Pool)

\* C17 as stated: list_insert_before with a target that is not NULL and not
\* in the list leaves the chain as it was, has released the head lock, and
\* leaves the pool's free bytes what they were before the call.
C17_InsertBeforeAbsent == [][TargetAbsent => InsertBeforeNoOp]_vars

\* C17 as amended: the same, for a call that finds the pool already set up
\* by an earlier list call; a call that has to set it up leaves the chain as
\* it was and the free bytes those of the new pool.
C17_Amended ==
    [][TargetAbsent =>
          IF memory_initialized # 0 THEN InsertBeforeNoOp
          ELSE /\ ~ub' /\ Chain' = Chain /\ last'.path = "unlocked"
               /\ FreeBytes(Pool)' \in {0, ALIGN(ListPoolBytes)}]_vars

\* a call with an absent target came back with one node in the list and the
\* node it had allocated released: every byte outside the list's node is free
C17_Witness ==
    /\ last.op = "list_insert_before" /\ last.ptr # NULL
    /\ last.ptr \notin Range(Chain)
    /\ Len(Chain) = 1
    /\ FreeBytes(Pool) = ALIGN(ListPoolBytes) - NodeBlock
    /\ ~ub

\* C18: list_count_nodes on a list of N nodes holding distinct values, N at
\* or below the ceiling, returns N and reports no cycle.
C18_CountIsN ==
    [][(/\ last'.op = "list_count_nodes"
        /\ NoRepeat(Vals)
        /\ Len(Chain) <= SafetyCeiling) =>
          (~ub' /\ last'.ret = Len(Chain) /\ last'.diag = "none")]_vars

C18_Witness ==
    /\ last.op = "list_count_nodes" /\ last.ret = SafetyCeiling /\ last.diag = "none"
    /\ Len(Chain) = SafetyCeiling /\ NoRepeat(Vals) /\ ~ub

\* a sequence without the first of its elements that equal v
RECURSIVE RemoveFirst(_, _)
RemoveFirst(s, v) ==
    IF s = <<>> THEN <<>>
    ELSE IF Head(s) = v THEN Tail(s)
    ELSE <<Head(s)>> \o RemoveFirst(Tail(s), v)

\* the first node of the chain that holds v
FirstHolding(v) == Chain[CHOOSE i \in Holding(v) : \A j \in Holding(v) : i <= j]

\* C20: under sequential use list_insert appends its value at the tail, and
\* list_delete(v) removes the first node holding v and no other, keeps the
\* order of the rest, moves the head when that node was first, and returns
\* the node's block to the pool; list_display shows the values in order.
C20_SequenceOfValues ==
    [][/\ (last'.op = "list_insert" /\ last'.path = "ok") =>
              (~ub' /\ Vals' = Append(Vals, last'.size) /\ Chain' = Append(Chain, last'.ret))
       /\ last'.op = "list_delete" =>
              /\ ~ub'
              /\ Vals' = RemoveFirst(Vals, last'.size)
              /\ head' = IF Chain' = <<>> THEN NULL ELSE Chain'[1]
              /\ IF Holding(last'.size) = {} THEN Chain' = Chain
                 ELSE /\ Chain' = RemoveFirst(Chain, FirstHolding(last'.size))
                      /\ FreeBytes(Pool)' = FreeBytes(Pool)
                            + Load(Pool, BLOCK_FROM_USER_PTR(FirstHolding(last'.size)) + OffSize)
       /\ last'.op = "list_display" => last'.ret = Vals]_vars

\* init, insert 5, insert 7, delete 5 leaves the list showing 7
C20_Witness ==
    /\ last.op = "list_delete" /\ last.size = 5
    /\ list_display(ListState) = <<7>>
    /\ head = PoolBase + HEADER_SIZE + NodeBlock
    /\ ~ub

----------------------------------------------------------------------------
(* list_count_nodes on any chain: the nodes of a full pool, linked in every
   way, cycles included, as a caller that writes the next fields, or a race,
   can leave them *)

\* the pool after one more node was taken from it and its fields set
WithNode(a, data) == NewNode(a.pool, a.ret, data)

FullPool ==
    WithNode(mem_alloc(
        WithNode(mem_alloc(
            WithNode(mem_alloc(mem_init(NoPool, ListPoolBytes, TRUE), SizeofNode), 5),
            SizeofNode), 6),
        SizeofNode), 7)

Slot(k) == PoolBase + HEADER_SIZE + k * NodeBlock

\* the full pool with the next field of node k set to links[k]
Linked(links) ==
    Store(Store(Store(FullPool, Slot(0) + OffLink, links[0]),
                Slot(1) + OffLink, links[1]),
          Slot(2) + OffLink, links[2])

InitCount ==
    /\ \E links \in [0..2 -> NodeSlots \cup {NULL}] :
          /\ heap = Linked(links).mem
          /\ mem_pool_start = Linked(links).start
          /\ mem_pool_total_size = Linked(links).total
          /\ free_list_head = Linked(links).head
    /\ head \in NodeSlots \cup {NULL}
    /\ memory_initialized = 1
    /\ ub = FALSE
    /\ owned = <<>>
    /\ lastFreed = NoPtr
    /\ lastAlloc = NoPtr
    /\ last = Call("start", NULL, 0, NULL, "none", "")
    /\ ops = 0
    /\ wrapped = FALSE
    /\ head_mutex = NoThread
    /\ thread = [t \in Threads |-> Idle]

SpecCount == InitCount /\ [][ListCount]_vars

\* the nodes a walk from the head visits up to one past the ceiling
Visited == ChainFrom(Pool, head, SafetyCeiling + 1)

\* C19: list_count_nodes returns on every chain, a cyclic or over-long one
\* included: a walk that passes the ceiling stops there, reports the cycle
\* diagnostic, has released the head lock and returns the count so far; a
\* shorter chain is counted to its end with no diagnostic.
C19_CountStopsAtCeiling ==
    [][last'.op = "list_count_nodes" =>
          /\ ~ub'
          /\ Statics' = Statics /\ head' = head
          /\ last'.path = "unlocked"
          /\ last'.ret = Len(Visited)
          /\ last'.diag = IF Len(Visited) > SafetyCeiling
                          THEN "CycleOrUnboundedList" ELSE "none"]_vars

\* the count of a chain that runs into a cycle came back
C19_Witness ==
    /\ last.op = "list_count_nodes"
    /\ last.diag = "CycleOrUnboundedList"
    /\ last.ret = SafetyCeiling + 1
    /\ ~NoRepeat(Visited)
    /\ ~ub

-----------------------------------------------------------------------------
(* The list operations run by threads. A step is what a thread does between
   two points where another thread can run and see a difference: a section
   under init_lock or mem_mutex is one step, and so is a section under
   head_mutex unless list_insert_after, which never takes head_mutex, can
   write in the middle of it. *)

\* the calls the threads make between them in a run
MaxCalls == 4
\* the calls of list_insert each thread makes when inserting is all they do
InsertsEach == 2

\* the word of a node's mutex while thread t holds it
MutexLocked == 200
LockedBy(t) == MutexLocked + t

pthread_mutex_lock(P, m, t) ==
    IF Readable(P, m) /\ Load(P, m) = MutexUnlocked THEN Store(P, m, LockedBy(t))
    ELSE [P EXCEPT !.ub = TRUE]

pthread_mutex_unlock_kept(P, m, t) == P
pthread_mutex_unlock(P, m, t) ==
    IF Readable(P, m) /\ Load(P, m) = LockedBy(t) THEN Store(P, m, MutexUnlocked)
    ELSE [P EXCEPT !.ub = TRUE]

\* new_node->next = prev_node->next; prev_node->next = new_node
SpliceAfter(P, prev_node, new_node) ==
    Store(Store(Touch(P, prev_node + OffLink), new_node + OffLink,
                Load(P, prev_node + OffLink)),
          prev_node + OffLink, new_node)

At(t, pc) == ~ub /\ thread[t].pc = pc

Go(t, pc, data, node, at) ==
    thread' = [thread EXCEPT ![t] = Place(pc, data, node, at, thread[t].calls)]

Return(t) == Go(t, "idle", 0, NULL, NULL)

\* the statics and the head after a step that left the pool as P
SetHeap(P) == SetList([ListState EXCEPT !.pool = P])

\* a thread enters an operation that starts with ensure_memory_initialized()
Enter(t, pc, data, at) ==
    /\ At(t, "idle")
    /\ \E S \in {ensure_memory_initialized(ListState, TRUE)} : SetList(S)
    /\ thread' = [thread EXCEPT ![t] = Place(pc, data, NULL, at, thread[t].calls + 1)]
    /\ ops' = ops + 1
    /\ UNCHANGED <<head_mutex, last>>

\* mem_alloc(sizeof(Node)) returned a: the error return, or the node's fields
\* are set and the thread goes on to pc
Allocating(t, a, pc) ==
    /\ \E P \in {IF a.ret = NULL THEN a.pool ELSE NewNode(a.pool, a.ret, thread[t].data)} :
          SetHeap(P)
    /\ IF a.ret = NULL THEN Return(t)
       ELSE Go(t, pc, thread[t].data, a.ret, thread[t].at)
    /\ UNCHANGED <<ops, head_mutex, last>>

InsertCall(t, data) == Enter(t, "ins_alloc", data, NULL)

InsertAlloc(t) ==
    /\ At(t, "ins_alloc")
    /\ \E a \in {mem_alloc(Pool, SizeofNode)} : Allocating(t, a, "ins_lock")

\* the next fields from the head on lead round a cycle: a walk to the end
\* of the list never gets there
Endless == Len(ChainFrom(Pool, head, Fuel(Pool))) = Fuel(Pool)

\* the walk of list_insert ended at tail, or read a word that is none, or
\* goes round a cycle for ever with head_mutex held
Walked_unlocked(t, tail) ==
    /\ \E S \in {IF tail = NULL /\ ~Endless THEN Ub(ListState) ELSE ListState} : SetList(S)
    /\ Go(t, IF tail = NULL THEN "ins_spin" ELSE "ins_link",
          thread[t].data, thread[t].node, tail)
    /\ head_mutex' = NoThread
Walked(t, tail) ==
    /\ \E S \in {IF tail = NULL /\ ~Endless THEN Ub(ListState) ELSE ListState} : SetList(S)
    /\ Go(t, IF tail = NULL THEN "ins_spin" ELSE "ins_link",
          thread[t].data, thread[t].node, tail)
    /\ head_mutex' = t

\* list_insert takes head_mutex: an empty list gets the node as its head,
\* else the walk finds the tail
InsertWalk(t) ==
    /\ At(t, "ins_lock") /\ head_mutex = NoThread
    /\ UNCHANGED <<ops, last>>
    /\ IF head = NULL
       THEN /\ head' = thread[t].node
            /\ Return(t)
            /\ UNCHANGED <<mem_pool_start, mem_pool_total_size, free_list_head, heap, ub,
                           memory_initialized, owned, lastFreed, lastAlloc, wrapped,
                           head_mutex>>
       ELSE \E tail \in {LastNode(Pool, head, Fuel(Pool))} : Walked(t, tail)

\* curr->next = new_node; unlock
InsertLink(t) ==
    /\ At(t, "ins_link")
    /\ \E P \in {LinkAtTail(Pool, thread[t].at, thread[t].node)} : SetHeap(P)
    /\ head_mutex' = NoThread
    /\ Return(t)
    /\ UNCHANGED <<ops, last>>

\* list_insert_after is handed a node of the list
InsertAfterCall(t, prev_node, data) ==
    /\ prev_node \in Range(ChainFrom(Pool, head, Fuel(Pool)))
    /\ Enter(t, "ia_alloc", data, prev_node)

InsertAfterAlloc(t) ==
    /\ At(t, "ia_alloc")
    /\ \E a \in {mem_alloc(Pool, SizeofNode)} : Allocating(t, a, "ia_lock")

\* pthread_mutex_lock(&prev_node->lock) waits while another thread holds it
InsertAfterLock(t) ==
    /\ At(t, "ia_lock")
    /\ \A u \in Threads \ {t} : Load(Pool, thread[t].at + OffLock) # LockedBy(u)
    /\ \E P \in {pthread_mutex_lock(Pool, thread[t].at + OffLock, t)} : SetHeap(P)
    /\ Go(t, "ia_link", thread[t].data, thread[t].node, thread[t].at)
    /\ UNCHANGED <<ops, head_mutex, last>>

InsertAfterLink(t) ==
    /\ At(t, "ia_link")
    /\ \E P \in {SpliceAfter(Pool, thread[t].at, thread[t].node)} :
          \E Q \in {pthread_mutex_unlock(P, thread[t].at + OffLock, t)} : SetHeap(Q)
    /\ Return(t)
    /\ UNCHANGED <<ops, head_mutex, last>>

DeleteCall(t, data) == Enter(t, "del", data, NULL)

\* the whole of list_delete under head_mutex
DeleteBody(t) ==
    /\ At(t, "del") /\ head_mutex = NoThread
    /\ \E S \in {DeleteEnsured(ListState, thread[t].data)} : SetList(S)
    /\ Return(t)
    /\ UNCHANGED <<ops, head_mutex, last>>

InsertBeforeCall(t, next_node, data) ==
    /\ next_node \in NodeSlots
    /\ Enter(t, "ib", data, next_node)

\* the whole of list_insert_before under head_mutex
InsertBeforeBody(t) ==
    /\ At(t, "ib") /\ head_mutex = NoThread
    /\ \E r \in {InsertBeforeEnsured(ListState, thread[t].at, thread[t].data)} :
          SetList(r.st)
    /\ Return(t)
    /\ UNCHANGED <<ops, head_mutex, last>>

\* list_cleanup starts without ensure_memory_initialized()
CleanupCall(t) ==
    /\ At(t, "idle")
    /\ thread' = [thread EXCEPT ![t] = Place("cl_detach", 0, NULL, NULL, thread[t].calls + 1)]
    /\ ops' = ops + 1
    /\ UNCHANGED <<mem_pool_start, mem_pool_total_size, free_list_head, heap, ub,
                   memory_initialized, owned, lastFreed, lastAlloc, wrapped,
                   head, head_mutex, last>>

\* curr = *head; *head = NULL, under head_mutex
CleanupDetach(t) ==
    /\ At(t, "cl_detach") /\ head_mutex = NoThread
    /\ head' = NULL
    /\ Go(t, "cl_free", 0, NULL, head)
    /\ UNCHANGED <<mem_pool_start, mem_pool_total_size, free_list_head, heap, ub,
                   memory_initialized, owned, lastFreed, lastAlloc, wrapped,
                   ops, head_mutex, last>>

\* one turn of the loop: next = curr->next; destroy the lock; mem_free(curr)
CleanupFree(t) ==
    /\ At(t, "cl_free") /\ thread[t].at # NULL
    /\ \E P \in {DestroyNode(Touch(Pool, thread[t].at + OffLink), thread[t].at)} :
          SetHeap(P)
    /\ Go(t, "cl_free", 0, NULL, Load(Pool, thread[t].at + OffLink))
    /\ UNCHANGED <<ops, head_mutex, last>>

\* after the loop: mem_deinit() if memory_initialized, under init_lock
CleanupDeinit(t) ==
    /\ At(t, "cl_free") /\ thread[t].at = NULL
    /\ \E P \in {IF memory_initialized # 0 THEN mem_deinit(Pool) ELSE Pool} :
          SetList([ListState EXCEPT !.pool = P, !.inited = 0])
    /\ Return(t)
    /\ UNCHANGED <<ops, head_mutex, last>>

InitCall(t) == Enter(t, "init", 0, NULL)

\* list_init under head_mutex: a list with nodes goes on to list_cleanup
InitCheck(t) ==
    /\ At(t, "init") /\ head_mutex = NoThread
    /\ IF head # NULL THEN Go(t, "cl_detach", 0, NULL, NULL) ELSE Return(t)
    /\ UNCHANGED <<mem_pool_start, mem_pool_total_size, free_list_head, heap, ub,
                   memory_initialized, owned, lastFreed, lastAlloc, wrapped,
                   head, ops, head_mutex, last>>

\* the values the threads of the mixed run pass
ConcVals == ListVals

NextConc ==
    \E t \in Threads :
        \/ ops < MaxCalls /\ \E data \in ConcVals : InsertCall(t, data)
        \/ InsertAlloc(t)
        \/ InsertWalk(t)
        \/ InsertLink(t)
        \/ ops < MaxCalls /\ \E prev_node \in NodeSlots, data \in ConcVals :
                                 InsertAfterCall(t, prev_node, data)
        \/ InsertAfterAlloc(t)
        \/ InsertAfterLock(t)
        \/ InsertAfterLink(t)
        \/ ops < MaxCalls /\ \E data \in ConcVals : DeleteCall(t, data)
        \/ DeleteBody(t)
        \/ ops < MaxCalls /\ \E next_node \in NodeSlots, data \in ConcVals :
                                 InsertBeforeCall(t, next_node, data)
        \/ InsertBeforeBody(t)
        \/ ops < MaxCalls /\ CleanupCall(t)
        \/ CleanupDetach(t)
        \/ CleanupFree(t)
        \/ CleanupDeinit(t)
        \/ ops < MaxCalls /\ InitCall(t)
        \/ InitCheck(t)

SpecConc == Init /\ [][NextConc]_vars

\* K threads that each call list_insert InsertsEach times, with values no
\* two calls share
InsertStart(t) ==
    /\ thread[t].calls < InsertsEach
    /\ InsertCall(t, 10 * t + thread[t].calls)

NextInsert ==
    \E t \in Threads :
        \/ InsertStart(t)
        \/ InsertAlloc(t)
        \/ InsertWalk(t)
        \/ InsertLink(t)

SpecInsert == Init /\ [][NextInsert]_vars

\* every thread has made its calls of list_insert and is back from the last
AllInserted ==
    \A t \in Threads : thread[t].pc = "idle" /\ thread[t].calls = InsertsEach

InsertedVals == {10 * t + k : t \in Threads, k \in 0..(InsertsEach - 1)}

NodesWanted == Cardinality(Threads) * InsertsEach

-----------------------------------------------------------------------------
(* list_insert_after next to the operations that walk the list and add to it *)

NextAfter ==
    \E t \in Threads :
        \/ ops < MaxCalls /\ \E data \in ConcVals : InsertCall(t, data)
        \/ InsertAlloc(t)
        \/ InsertWalk(t)
        \/ InsertLink(t)
        \/ ops < MaxCalls /\ \E prev_node \in NodeSlots, data \in ConcVals :
                                 InsertAfterCall(t, prev_node, data)
        \/ InsertAfterAlloc(t)
        \/ InsertAfterLock(t)
        \/ InsertAfterLink(t)
        \/ ops < MaxCalls /\ \E next_node \in NodeSlots, data \in ConcVals :
                                 InsertBeforeCall(t, next_node, data)
        \/ InsertBeforeBody(t)

SpecAfter == Init /\ [][NextAfter]_vars

AllIdle == \A t \in Threads : thread[t].pc = "idle"

\* the nodes the pool has given out and not taken back
NodesOut == {b + HEADER_SIZE : b \in MarkedUsed(Pool)}

\* C12: with list_insert_after running next to list_insert and
\* list_insert_before, once every call has returned the chain holds every
\* node that was added: none is cut out of it.
C12_InsertAfterKeepsNodes ==
    (AllIdle /\ ~ub) => NodesOut \subseteq Range(Chain)

-----------------------------------------------------------------------------
\* n is the payload of a block the initialised pool has given out
NodeLive(n) == Initialized /\ BLOCK_FROM_USER_PTR(n) \in MarkedUsed(Pool)

\* C13: in every state of every interleaving of the list operations,
\* list_cleanup and list_init included, the nodes reachable from the head are
\* allocated blocks of the initialised pool, and the chain has no cycle and
\* ends at NULL.
C13_ReachableNodesLive ==
    (~ub /\ head # NULL) =>
        /\ Chain # <<>>
        /\ \A i \in DOMAIN Chain : NodeLive(Chain[i])
        /\ NoRepeat(Chain)
        /\ Load(Pool, Chain[Len(Chain)] + OffLink) = NULL

\* thread t is inside list_insert_after: it holds the lock of the node it
\* was given, or is on its way to take it
UsesLock(t) == thread[t].pc \in {"ia_alloc", "ia_lock", "ia_link"}

\* C14: while a thread holds the lock of a node, or has started the
\* list_insert_after that will take it, the node is an allocated block and
\* its lock has not been destroyed.
C14_NoFreeUnderLock ==
    ~ub =>
        \A t \in Threads :
            UsesLock(t) =>
                /\ NodeLive(thread[t].at)
                /\ Load(Pool, thread[t].at + OffLock) # MutexDestroyed

-----------------------------------------------------------------------------
(* Progress: what a thread inside a call needs in order to take its next
   step *)

\* thread t is inside a call and its next step is open to it: it needs no
\* lock, or the lock it needs is free
CanProceed(t) ==
    \/ thread[t].pc \in {"ins_alloc", "ins_link", "ia_alloc", "ia_link", "cl_free"}
    \/ /\ thread[t].pc \in {"ins_lock", "del", "ib", "cl_detach", "init"}
       /\ head_mutex = NoThread
    \/ /\ thread[t].pc = "ia_lock"
       /\ \A u \in Threads \ {t} : Load(Pool, thread[t].at + OffLock) # LockedBy(u)

\* C15: in no state of any interleaving are calls under way with none of
\* them able to take a step: no thread waits for ever for a lock or inside
\* an operation, so every started operation returns.
C15_NoCallStuck ==
    (~ub /\ \E t \in Threads : thread[t].pc # "idle") =>
        \E t \in Threads : CanProceed(t)

-----------------------------------------------------------------------------
(* The allocator called by two threads at once. Each thread owns one block
   of a small pool and makes one call: mem_alloc, mem_free of its block, or
   mem_resize of its block. A section under mem_mutex is one step; the
   memcpy of mem_resize touches the payloads of the caller's own two blocks
   only and is taken with the mem_alloc before it. *)

\* the bytes of the pool the two threads share
RacePoolBytes == 100
RaceAllocSizes == {8, 16}
RaceResizeSizes == {0, 8, 16, 40}

\* thread t's block: the t-th block of the pool
Own(t) == PoolBase + (t - 1) * Required(8) + HEADER_SIZE

\* the pool with the two threads' blocks taken and a value in each
RacePool ==
    Store(Store(mem_alloc(mem_alloc(mem_init(NoPool, RacePoolBytes, TRUE), 8).pool, 8).pool,
                Own(1), 7),
          Own(2), 7)

InitRace ==
    /\ mem_pool_start = RacePool.start
    /\ mem_pool_total_size = RacePool.total
    /\ free_list_head = RacePool.head
    /\ heap = RacePool.mem
    /\ ub = FALSE
    /\ owned = <<>>
    /\ lastFreed = NoPtr
    /\ lastAlloc = NoPtr
    /\ last = Call("start", NULL, 0, NULL, "none", "")
    /\ head = NULL
    /\ memory_initialized = 0
    /\ ops = 0
    /\ wrapped = FALSE
    /\ head_mutex = NoThread
    /\ thread = [t \in Threads |-> Idle]

\* what a step of an allocator call leaves alone
RaceFrame ==
    UNCHANGED <<owned, lastFreed, lastAlloc, wrapped, last, head, memory_initialized,
                head_mutex, ops>>

\* thread t is back from its call op(block, size) with ret
Back(t, op, block, size, ret) ==
    thread' = [thread EXCEPT ![t] = Place(op, size, ret, block, 1)]

ThreadAlloc(t, size) ==
    /\ At(t, "idle")
    /\ \E a \in {mem_alloc(Pool, size)} :
          SetPool(a.pool) /\ Back(t, "mem_alloc", NULL, size, a.ret)
    /\ RaceFrame

ThreadFree(t) ==
    /\ At(t, "idle")
    /\ \E f \in {mem_free(Pool, Own(t))} :
          SetPool(f.pool) /\ Back(t, "mem_free", Own(t), 0, NULL)
    /\ RaceFrame

\* mem_resize up to the unlock before mem_alloc: size 0 is a mem_free, a
\* freed block and a block that is large enough return at once, and a block
\* that has to grow goes on with old_user kept
ResizeCheck(t, block, size, hdr) ==
    IF size = 0
    THEN \E f \in {mem_free(Pool, block)} :
             SetPool(f.pool) /\ Back(t, "mem_resize", block, size, NULL)
    ELSE /\ \E P \in {Touch(Touch(Pool, hdr + OffIsFree), hdr + OffSize)} : SetPool(P)
         /\ IF Load(Pool, hdr + OffIsFree) # 0
            THEN Back(t, "mem_resize", block, size, NULL)
            ELSE IF Wrap(ALIGN(size) + HEADER_SIZE) <= Load(Pool, hdr + OffSize)
            THEN Back(t, "mem_resize", block, size, block)
            ELSE Go(t, "rs_alloc", size,
                    IF Load(Pool, hdr + OffSize) >= HEADER_SIZE
                    THEN Load(Pool, hdr + OffSize) - HEADER_SIZE ELSE 0,
                    block)

ResizeCall(t, size) ==
    /\ At(t, "idle")
    /\ ResizeCheck(t, Own(t), size, BLOCK_FROM_USER_PTR(Own(t)))
    /\ RaceFrame

\* new_block = mem_alloc(size), and the memcpy when there is one
ResizeAlloc(t) ==
    /\ At(t, "rs_alloc")
    /\ \E a \in {mem_alloc(Pool, thread[t].data)} :
          IF a.ret = NULL
          THEN SetPool(a.pool) /\ Back(t, "mem_resize", thread[t].at, thread[t].data, NULL)
          ELSE /\ \E C \in {memcpy(a.pool, a.ret, thread[t].at,
                                   Min(thread[t].node, thread[t].data))} : SetPool(C)
               /\ Go(t, "rs_free", thread[t].data, a.ret, thread[t].at)
    /\ RaceFrame

\* mem_free(block); return new_block
ResizeFree(t) ==
    /\ At(t, "rs_free")
    /\ \E f \in {mem_free(Pool, thread[t].at)} :
          SetPool(f.pool)
          /\ Back(t, "mem_resize", thread[t].at, thread[t].data, thread[t].node)
    /\ RaceFrame

NextRace ==
    \E t \in Threads :
        \/ \E size \in RaceAllocSizes : ThreadAlloc(t, size)
        \/ ThreadFree(t)
        \/ \E size \in RaceResizeSizes : ResizeCall(t, size)
        \/ ResizeAlloc(t)
        \/ ResizeFree(t)

SpecRace == InitRace /\ [][NextRace]_vars

\* the call a thread is back from, made on the pool P with no other call
\* running
SeqCall(P, th) ==
    IF th.pc = "mem_alloc" THEN mem_alloc(P, th.data)
    ELSE IF th.pc = "mem_free" THEN [pool |-> mem_free(P, th.at).pool, ret |-> NULL]
    ELSE [pool |-> mem_resize(P, th.at, th.data).pool,
          ret |-> mem_resize(P, th.at, th.data).ret]

\* the two calls gave what they give when t1's call runs first and t2's
\* second, and left the pool those two calls leave
InOrder(t1, t2) ==
    LET r1 == SeqCall(RacePool, thread[t1])
        r2 == SeqCall(r1.pool, thread[t2])
    IN  /\ thread[t1].node = r1.ret
        /\ thread[t2].node = r2.ret
        /\ Pool = r2.pool

BothBack == \A t \in Threads : thread[t].pc \in {"mem_alloc", "mem_free", "mem_resize"}

\* C16: two allocator calls that run at the same time return what they
\* return in one of the two orders of running them one after the other, and
\* leave the pool that order leaves.
C16_Serializable ==
    (BothBack /\ ~ub) => (InOrder(1, 2) \/ InOrder(2, 1))

-----------------------------------------------------------------------------
(* list_insert_after called by the single caller, and the insert operations
   on a pool that runs out of room *)

\* the return after "if (!new_node)": nothing of the list is touched
AfterNoNode_cut(S, prev_node) ==
    [S EXCEPT !.pool = Store(S.pool, prev_node + OffLink, NULL)]
AfterNoNode(S, prev_node) == S

\* lock prev_node, splice, unlock, P being the pool with the new node n set up
AfterLinked(S, P, prev_node, n) ==
    [st |-> [S EXCEPT !.pool =
                pthread_mutex_unlock(
                    SpliceAfter(pthread_mutex_lock(P, prev_node + OffLock, NoThread),
                                prev_node, n),
                    prev_node + OffLock, NoThread)],
     path |-> "ok"]

\* the lines after new_node = mem_alloc(sizeof(Node)), a being what it returned
AfterAlloc(S, prev_node, data, a) ==
    IF a.ret = NULL
    THEN [st |-> AfterNoNode([S EXCEPT !.pool = a.pool], prev_node), path |-> "nomem"]
    ELSE AfterLinked(S, NewNode(a.pool, a.ret, data), prev_node, a.ret)

\* the lines after ensure_memory_initialized(), S being the list it left
AfterEnsured(S, prev_node, data) ==
    IF prev_node = NULL THEN [st |-> S, path |-> "null"]
    ELSE AfterAlloc(S, prev_node, data, mem_alloc(S.pool, SizeofNode))

list_insert_after(S0, prev_node, data, mallocOk) ==
    AfterEnsured(ensure_memory_initialized(S0, mallocOk), prev_node, data)

InsertedAfter(prev_node, data, r) ==
    /\ SetList(r.st)
    /\ last' = Call("list_insert_after", prev_node, data, NULL, "none", r.path)

\* the caller hands list_insert_after a node of its list, or NULL
ListInsertAfter ==
    \E prev_node \in NodeSlots \cup {NULL}, data \in ListVals, mallocOk \in BOOLEAN :
        /\ ~ub /\ Step
        /\ memory_initialized # 0 => mallocOk
        /\ prev_node # NULL => prev_node \in Range(ChainFrom(Pool, head, Fuel(Pool)))
        /\ InsertedAfter(prev_node, data,
                         list_insert_after(ListState, prev_node, data, mallocOk))

NextRoom ==
    \/ ListInsert
    \/ ListInsertAfter
    \/ ListInsertBefore
    \/ ListCleanup

SpecRoom == Init /\ [][NextRoom]_vars

InsertOps == {"list_insert", "list_insert_after", "list_insert_before"}

\* the pool that is set up has no block for a node
NoRoom == memory_initialized # 0 /\ mem_alloc(Pool, SizeofNode).ret = NULL

\* the call set out to create the pool and got no buffer for it
NoPoolMade == memory_initialized = 0 /\ mem_pool_start' = NULL

\* no node of the chain is left locked, and the head lock was released
NoLockHeld ==
    /\ last.path # "locked"
    /\ head_mutex = NoThread
    /\ \A i \in DOMAIN Chain : Load(Pool, Chain[i] + OffLock) = MutexUnlocked

\* C21: an insert operation whose node allocation fails leaves the chain, the
\* head and the state of the pool as they were, and holds no lock when it
\* returns.
C21_FailedInsertNoChange ==
    [][(last'.op \in InsertOps /\ (NoRoom \/ NoPoolMade)) =>
          /\ ~ub'
          /\ Chain' = Chain /\ head' = head
          /\ Statics' = Statics
          /\ NoLockHeld']_vars

\* C21 as the code has it: the pool is as it was when it had been set up
\* before the call; a call that had to create the pool and got no buffer has
\* changed the allocator's statics, the chain and the head being as they were
C21_Amended ==
    [][(last'.op \in InsertOps /\ (NoRoom \/ NoPoolMade)) =>
          /\ ~ub'
          /\ Chain' = Chain /\ head' = head
          /\ NoRoom => Statics' = Statics
          /\ NoLockHeld']_vars

\* list_insert_after on a node in the middle of a full list came back
C21_Witness ==
    /\ last.op = "list_insert_after" /\ last.path = "nomem"
    /\ last.ptr \in Range(Chain) /\ last.ptr # Chain[Len(Chain)]
    /\ FreeBytes(Pool) = 0
    /\ ~ub

-----------------------------------------------------------------------------
\* C22: in every step of every interleaving, a node whose memory goes back
\* (its block is freed, or the pool that holds it is released) has its lock
\* destroyed in that step.
C22_LockDestroyedWithNode ==
    [][\A n \in NodeSlots :
          (NodeLive(n) /\ ~ub' /\ ~NodeLive(n)') =>
              (Initialized' /\ Load(Pool, n + OffLock)' = MutexDestroyed)]_vars

-----------------------------------------------------------------------------
\* C23: a thread of list_insert that has walked a non-empty list and is about
\* to link its node holds the lock of the node it reached, and no longer the
\* head lock.
C23_InsertHoldsNodeLock ==
    \A t \in Threads :
        thread[t].pc = "ins_link" =>
            /\ head_mutex # t
            /\ Load(Pool, thread[t].at + OffLock) = LockedBy(t)

-----------------------------------------------------------------------------
\* the pool as mem_init leaves it
FreshPool == mem_init(NoPool, ListPoolBytes, TRUE)

\* mem_init ran in this step
MemInitRan == Pool' = FreshPool /\ Pool' # Pool

\* list_cleanup's last section ran in this step
DeinitRan ==
    \E t \in Threads : thread[t].pc = "cl_free" /\ thread[t].at = NULL /\ thread'[t].pc = "idle"

\* C24: in every interleaving mem_init runs only while the pool is not set
\* up, so it discards no node; it sets the flag that keeps every later call
\* from running it, and only the last section of list_cleanup clears that
\* flag; blocks are handed out only while the flag is set.
C24_InitOnce ==
    [][/\ MemInitRan =>
             /\ memory_initialized = 0 /\ ~Initialized
             /\ memory_initialized' = 1
       /\ (memory_initialized # 0 /\ memory_initialized' = 0) => DeinitRan
       /\ (Initialized' /\ ~ub') => memory_initialized' # 0]_vars

\* both threads are in their first call, both past
\* ensure_memory_initialized(), and the first has its node from the one pool
C24_Witness ==
    /\ \A t \in Threads : thread[t].calls = 1
    /\ thread[1].pc = "ins_lock" /\ thread[2].pc = "ins_alloc"
    /\ NodeLive(thread[1].node)
    /\ Pool # FreshPool
    /\ memory_initialized = 1 /\ ~ub

-----------------------------------------------------------------------------
\* rounding up to the alignment, and the block size a request of n bytes
\* needs, as numbers (no size_t arithmetic)
AlignUp(x) == ((x + (ALIGNMENT - 1)) \div ALIGNMENT) * ALIGNMENT
RequiredBytes(n) == AlignUp(AlignUp(IF n = 0 THEN 1 ELSE n) + HEADER_SIZE)

\* the places in the free list fl of the blocks that are large enough for req
Fitting(fl, req) == {i \in DOMAIN fl : Load(Pool, fl[i] + OffSize) >= req}

First(S) == CHOOSE i \in S : \A j \in S : i <= j

Without(s, i) == [k \in 1..(Len(s) - 1) |-> IF k < i THEN s[k] ELSE s[k + 1]]

\* what mem_alloc has to do with the block b at place i of the free list fl
\* for a request that needs req bytes
TakesBlock(fl, i, b, req) ==
    /\ last'.ret = USER_PTR_FROM_BLOCK(b)
    /\ Load(Pool, b + OffIsFree)' = 0
    /\ IF Load(Pool, b + OffSize) - req >= HEADER_SIZE + ALIGNMENT
       THEN /\ Load(Pool, b + OffSize)' = req
            /\ Load(Pool, b + req + OffSize)' = Load(Pool, b + OffSize) - req
            /\ Load(Pool, b + req + OffIsFree)' # 0
            /\ FreeList(Pool)' = [fl EXCEPT ![i] = b + req]
       ELSE /\ Load(Pool, b + OffSize)' = Load(Pool, b + OffSize)
            /\ FreeList(Pool)' = Without(fl, i)

FirstFitOf(fl, req) ==
    IF Fitting(fl, req) = {}
    THEN last'.ret = NULL /\ Statics' = Statics
    ELSE TakesBlock(fl, First(Fitting(fl, req)), fl[First(Fitting(fl, req))], req)

\* C25: mem_alloc(n) takes the first block of the free list, in list order,
\* whose size is at least required = align(align(max(n,1)) + header_size);
\* it splits the block exactly when the rest is at least header_size + 8,
\* the rest taking the block's place in the free list, and takes the whole
\* block otherwise; with no such block it returns NULL and changes nothing.
C25_FirstFitSplit ==
    [][\A n \in AllocSizes :
          (last'.op = "mem_alloc" /\ last'.size = n) =>
              /\ ~ub'
              /\ \E fl \in {FreeList(Pool)} : FirstFitOf(fl, RequiredBytes(n))]_vars

\* the same on runs in which no request was large enough to wrap
C25_WhenNoWrap ==
    [][\A n \in AllocSizes :
          (last'.op = "mem_alloc" /\ last'.size = n /\ ~wrapped') =>
              /\ ~ub'
              /\ \E fl \in {FreeList(Pool)} : FirstFitOf(fl, RequiredBytes(n))]_vars

-----------------------------------------------------------------------------
\* two blocks next to each other in the buffer, both marked free
AdjacentFree(P) ==
    {i \in 1..(Len(PhysBlocks(P)) - 1) :
        /\ Load(P, PhysBlocks(P)[i] + OffIsFree) # 0
        /\ Load(P, PhysBlocks(P)[i + 1] + OffIsFree) # 0}

\* the whole buffer is one free block
OneFreeBlock(P) ==
    /\ PhysBlocks(P) = <<P.start>>
    /\ Load(P, P.start + OffSize) = P.total
    /\ Load(P, P.start + OffIsFree) # 0

\* C26: after any sequence of mem_alloc, mem_free and mem_resize no two
\* blocks that are neighbours in the buffer are both free, and once the
\* caller has released every block the buffer is one free block again.
C26_CoalescingComplete ==
    (Initialized /\ ~ub) =>
        /\ AdjacentFree(Pool) = {}
        /\ DOMAIN owned = {} => OneFreeBlock(Pool)

\* C26 on the runs where no request's size arithmetic wrapped
C26_WhenNoWrap == wrapped \/ C26_CoalescingComplete

-----------------------------------------------------------------------------
\* the free list fl of P runs through rising addresses and ends in NULL
RisingToNull(P, fl) ==
    /\ \A i \in 1..(Len(fl) - 1) : fl[i] < fl[i + 1]
    /\ fl # <<>> => Load(P, fl[Len(fl)] + OffNext) = NULL

\* the blocks marked free that are large enough for req
FreeAndFits(P, req) == {b \in MarkedFree(P) : Load(P, b + OffSize) >= req}

\* a call with a pointer the caller holds, or with none
ValidCall ==
    /\ last'.op \in {"mem_alloc", "mem_free", "mem_resize"}
    /\ last'.ptr \in DOMAIN owned \cup {NULL}

\* what a mem_alloc that needs req bytes returns
LowestFit(req) ==
    IF FreeAndFits(Pool, req) = {} THEN last'.ret = NULL
    ELSE /\ last'.ret # NULL
         /\ BLOCK_FROM_USER_PTR(last'.ret) \in FreeAndFits(Pool, req)
         /\ \A b \in FreeAndFits(Pool, req) : BLOCK_FROM_USER_PTR(last'.ret) <= b

\* C27: the free list has no cycle and runs through strictly rising
\* addresses, so that the first fit mem_alloc takes is the fitting free block
\* of the lowest address; and no mem_alloc, mem_free or mem_resize of a
\* pointer the caller holds reaches the pool-corruption branch of the scan.
C27_FreeListAddressOrder ==
    [][/\ (Initialized' /\ ~ub') => \E fl \in {FreeList(Pool)'} : RisingToNull(Pool', fl)
       /\ ValidCall => (~ub' /\ last'.diag # "PoolCorruption")
       /\ \A n \in AllocSizes :
             (Initialized /\ last'.op = "mem_alloc" /\ last'.size = n) =>
                 LowestFit(RequiredBytes(n))]_vars

\* C27 on the runs where no request's size arithmetic wrapped
C27_WhenNoWrap ==
    [][wrapped' \/
       /\ (Initialized' /\ ~ub') => \E fl \in {FreeList(Pool)'} : RisingToNull(Pool', fl)
       /\ ValidCall => (~ub' /\ last'.diag # "PoolCorruption")
       /\ \A n \in AllocSizes :
             (Initialized /\ last'.op = "mem_alloc" /\ last'.size = n) =>
                 LowestFit(RequiredBytes(n))]_vars

====
